---- MODULE Spec2Model ----
(***************************************************************************)
(* Model of the incremental sync and triage engine of                      *)
(* internal/worker/update.go: doUpdate, updateDirectory, updateBatch,      *)
(* handleCVE, repoCVEFiles, walkFiles, groupFilesByDirectory and           *)
(* idFromFilename, run against a transactional store (Firestore, as the    *)
(* source names it) and a content-addressed repository.                    *)
(*                                                                         *)
(* Strings that the code compares or slices (file names, CVE IDs) are      *)
(* sequences of character codes, so that the byte-wise string order used   *)
(* by the store's range read is different from the numeric order used by   *)
(* the sort, as it is in Go.                                               *)
(***************************************************************************)
EXTENDS Integers, Sequences, FiniteSets, TLC

\* ------------------------------------------------------------------ bounds

\* Writes per transaction; the source uses 500, scaled down here.
batchSize == 2
\* How many times doUpdate is started.
MaxRuns == 2
\* How many events the environment contributes over all runs: a commit that
\* changes a file, an external actor rewriting a triage state, an operation
\* that fails, an interruption of the process.
MaxEvents == 2
\* How many times the store may execute one transaction body.
MaxAttempts == 2

\* ------------------------------------------------------------ characters

Prefix == <<67, 86, 69, 45>>                 \* "CVE-"
JsonExt == <<46, 106, 115, 111, 110>>        \* ".json"
MdExt == <<46, 109, 100>>                    \* ".md"
DotCode == <<46>>                            \* "."
DashCode == <<45>>                           \* "-"
PlusCode == <<43>>                           \* "+"
SlashCode == <<47>>                          \* "/"
ZeroCode == <<48>>                           \* "0"

DigitCodes(ds) == [i \in 1..Len(ds) |-> ZeroCode[1] + ds[i]]

\* The file name CVE-<year>-<number>.json, from the digits of year and number.
CVEFile(year, num) == Prefix \o DigitCodes(year) \o DashCode \o DigitCodes(num) \o JsonExt

\* Byte-wise string order, as Go's < on strings and the store's order on IDs.
RECURSIVE StrLess(_, _)
StrLess(a, b) ==
    IF Len(b) = 0 THEN FALSE
    ELSE IF Len(a) = 0 THEN TRUE
    ELSE IF a[1] # b[1] THEN a[1] < b[1]
    ELSE StrLess(Tail(a), Tail(b))

StrLeq(a, b) == a = b \/ StrLess(a, b)

HasPrefix(s, p) == Len(s) >= Len(p) /\ SubSeq(s, 1, Len(p)) = p

HasSuffix(s, p) == Len(s) >= Len(p) /\ SubSeq(s, Len(s) - Len(p) + 1, Len(s)) = p

\* The last position of the character c in s up to position k; 0 when
\* there is none.
RECURSIVE LastIndex(_, _, _)
LastIndex(s, c, k) ==
    IF k = 0 THEN 0
    ELSE IF s[k] = c THEN k
    ELSE LastIndex(s, c, k - 1)

\* The loop of path.Ext, from position k down: it ends at a slash.
RECURSIVE ExtFrom(_, _)
ExtFrom(name, k) ==
    IF k = 0 THEN <<>>
    ELSE IF name[k] = SlashCode[1] THEN <<>>
    ELSE IF name[k] = DotCode[1] THEN SubSeq(name, k, Len(name))
    ELSE ExtFrom(name, k - 1)

\* path.Ext: the suffix beginning at the final dot in the final
\* slash-separated element of the name; empty if there is no dot.
PathExt(name) == ExtFrom(name, Len(name))

\* The name without its trailing slashes.
RECURSIVE TrimSlashes(_)
TrimSlashes(name) ==
    IF Len(name) > 0 /\ name[Len(name)] = SlashCode[1]
    THEN TrimSlashes(SubSeq(name, 1, Len(name) - 1))
    ELSE name

\* The part of name after its last slash.
LastElement(name) ==
    SubSeq(name, LastIndex(name, SlashCode[1], Len(name)) + 1, Len(name))

\* path.Base: the last element of the name, trailing slashes removed; "."
\* for the empty name and "/" for a name of slashes only.
PathBase(name) ==
    IF Len(name) = 0 THEN DotCode
    ELSE IF Len(TrimSlashes(name)) = 0 THEN SlashCode
    ELSE LastElement(TrimSlashes(name))

TrimSuffix(s, suf) == IF HasSuffix(s, suf) THEN SubSeq(s, 1, Len(s) - Len(suf)) ELSE s

\* idFromFilename extracts the CVE ID from its filename.
idFromFilename(name) == TrimSuffix(PathBase(name), PathExt(name))

\* isCVEFilename reports whether name is the basename of a CVE file.
isCVEFilename(name) == HasPrefix(name, Prefix) /\ PathExt(name) = JsonExt

\* ------------------------------------------------------------------ ints

\* A Go int has 64 bits, more than the integers of the model checker: it is
\* kept as its sign and its decimal digits, without leading zeros.
IntOf(neg, digits) == [neg |-> neg /\ digits # <<0>>, digits |-> digits]

RECURSIVE StripZeros(_)
StripZeros(d) == IF Len(d) > 1 /\ d[1] = 0 THEN StripZeros(Tail(d)) ELSE d

\* The order of magnitudes written without leading zeros.
RECURSIVE DigitsLess(_, _)
DigitsLess(a, b) ==
    IF Len(a) # Len(b) THEN Len(a) < Len(b)
    ELSE IF Len(a) = 0 THEN FALSE
    ELSE IF a[1] # b[1] THEN a[1] < b[1]
    ELSE DigitsLess(Tail(a), Tail(b))

\* < on Go ints.
IntLess(a, b) ==
    IF a.neg # b.neg THEN a.neg
    ELSE IF a.neg THEN DigitsLess(b.digits, a.digits)
    ELSE DigitsLess(a.digits, b.digits)

\* 1<<63 - 1 and 1<<63, the largest magnitudes of an int above and below zero.
MaxInt == <<9, 2, 2, 3, 3, 7, 2, 0, 3, 6, 8, 5, 4, 7, 7, 5, 8, 0, 7>>
MinIntMagnitude == <<9, 2, 2, 3, 3, 7, 2, 0, 3, 6, 8, 5, 4, 7, 7, 5, 8, 0, 8>>

\* 1<<64 - 1, the largest value strconv.ParseUint holds while it reads digits.
MaxUint == <<1, 8, 4, 4, 6, 7, 4, 4, 0, 7, 3, 7, 0, 9, 5, 5, 1, 6, 1, 5>>

\* The errors of strconv.Atoi.
ErrSyntax == <<"strconv.Atoi", "invalid syntax">>
ErrRange == <<"strconv.Atoi", "value out of range">>

\* The number of characters at the front of s that are digits, from k on.
RECURSIVE DigitRun(_, _)
DigitRun(s, k) ==
    IF k > Len(s) THEN Len(s)
    ELSE IF s[k] < ZeroCode[1] \/ s[k] > ZeroCode[1] + 9 THEN k - 1
    ELSE DigitRun(s, k + 1)

\* strconv.Atoi on a sequence of character codes: an optional sign, then
\* one digit or more; the value has to fit an int.  With a syntax error the
\* value is 0, with a range error it is the nearest bound of int.  The
\* characters are read from the left, so digits that exceed 64 bits give
\* the range error before a later character that is no digit is seen.
Atoi(s) ==
    LET signed == Len(s) > 0 /\ s[1] \in {PlusCode[1], DashCode[1]}
        neg == signed /\ s[1] = DashCode[1]
        body == IF signed THEN Tail(s) ELSE s
        run == DigitRun(body, 1)
        digits == StripZeros([k \in 1..run |-> body[k] - ZeroCode[1]])
        bound == IF neg THEN MinIntMagnitude ELSE MaxInt
    IN  IF Len(body) = 0 THEN [val |-> IntOf(FALSE, <<0>>), err |-> ErrSyntax]
        ELSE IF DigitsLess(MaxUint, digits) THEN [val |-> IntOf(neg, bound), err |-> ErrRange]
        ELSE IF run < Len(body) THEN [val |-> IntOf(FALSE, <<0>>), err |-> ErrSyntax]
        ELSE IF DigitsLess(bound, digits) THEN [val |-> IntOf(neg, bound), err |-> ErrRange]
        ELSE [val |-> IntOf(neg, digits), err |-> <<>>]

\* ------------------------------------------------------------ repository

\* The contents a CVE file can have.  A blob's hash is its content's name
\* (content addressing without collisions).
Blobs == {"publicNeeds", "publicNoNeeds", "reserved"}

StatePublic == "PUBLIC"

\* cve.State of the decoded blob.
CVEStateOf(blob) == IF blob = "reserved" THEN "RESERVED" ELSE StatePublic

\* The injected triage predicate, a pure function of the decoded content.
needsIssue(blob) == blob = "publicNeeds"

F0001 == CVEFile(<<2, 0, 1, 4>>, <<0, 0, 0, 1>>)
F9999 == CVEFile(<<2, 0, 1, 4>>, <<9, 9, 9, 9>>)
F10001 == CVEFile(<<2, 0, 1, 4>>, <<1, 0, 0, 0, 1>>)
F10002 == CVEFile(<<2, 0, 1, 4>>, <<1, 0, 0, 0, 2>>)
F2015 == CVEFile(<<2, 0, 1, 5>>, <<0, 0, 0, 1>>)
Readme == <<82, 69, 65, 68, 77, 69>> \o MdExt
\* CVE-2014-01.json and CVE-2014-1.json: one year and one number.
F01 == CVEFile(<<2, 0, 1, 4>>, <<0, 1>>)
F1 == CVEFile(<<2, 0, 1, 4>>, <<1>>)
\* CVE-YEAR-0001.json: the year is not a number.
FNoYear == Prefix \o <<89, 69, 65, 82>> \o DashCode \o DigitCodes(<<0, 0, 0, 1>>) \o JsonExt
\* CVE-2014.json: the name ends before the number.
FShort == Prefix \o DigitCodes(<<2, 0, 1, 4>>) \o JsonExt

\* The tree entries <<directory, name>> of the repositories considered:
\* "grouped" keeps every directory contiguous in the numeric order of its
\* files, "split" has directory d1 on both sides of d2, "tied" has two
\* files the sort does not tell apart, "unparsed" and "short" have a CVE
\* file whose name is not CVE-YEAR-NUMBER.json.
Layouts ==
    [ grouped  |-> { <<"d1", F0001>>, <<"d1", Readme>>, <<"d2", F9999>>,
                     <<"d2", F10001>>, <<"d2", F10002>>, <<"d3", F2015>> },
      split    |-> { <<"d1", F0001>>, <<"d2", F9999>>, <<"d1", F10001>> },
      tied     |-> { <<"d1", F01>>, <<"d1", F1>> },
      unparsed |-> { <<"d1", FNoYear>> },
      short    |-> { <<"d1", FShort>> } ]

LayoutNames == DOMAIN Layouts

AllEntries == UNION {Layouts[l] : l \in LayoutNames}

\* The directories of the root tree, in the order of its entries (git keeps
\* the entries of a tree sorted by name).
DirOrder == <<"d1", "d2", "d3">>

Dirs == {DirOrder[k] : k \in 1..Len(DirOrder)}

AllIDs == {idFromFilename(e[2]) : e \in {x \in AllEntries : isCVEFilename(x[2])}}

\* The tree hash of a directory: a collision-free digest of its entries.
TreeHashOf(t, dir) == <<"tree", {<<e[2], t[e]>> : e \in {x \in DOMAIN t : x[1] = dir}}>>

\* The directory hash marker of a directory never processed, and the sentinel.
NoHash == <<>>
InProgress == <<"in progress">>

\* Errors are tuples naming the failed operation, as the prefixes that
\* derrors.Wrap puts before an error's text do; the nil error is empty.
NoErr == <<>>

\* The names of a tree's entries, in the order of the tree.
RECURSIVE SortNames(_)
SortNames(S) ==
    IF S = {} THEN <<>>
    ELSE LET m == CHOOSE x \in S : \A y \in S : ~StrLess(y, x)
         IN  <<m>> \o SortNames(S \ {m})

\* tree.Entries of the directories from the k-th on, in walkFiles' order.
RECURSIVE Entries(_, _)
Entries(t, k) ==
    IF k > Len(DirOrder) THEN <<>>
    ELSE LET names == SortNames({e[2] : e \in {x \in DOMAIN t : x[1] = DirOrder[k]}})
         IN  [p \in 1..Len(names) |-> <<DirOrder[k], names[p]>>] \o Entries(t, k + 1)

\* The loop of walkFiles over the entries left, files being the files
\* collected so far.  The error of a year or a number that is not an integer
\* ends the walk; a name too short for the slice of its number ends the
\* process (a run-time panic: slice bounds out of range).
RECURSIVE walkFrom(_, _, _)
walkFrom(t, entries, files) ==
    IF Len(entries) = 0 THEN [files |-> files, err |-> NoErr, panicked |-> FALSE]
    ELSE IF ~isCVEFilename(Head(entries)[2]) THEN walkFrom(t, Tail(entries), files)
    ELSE LET e == Head(entries)
             year == Atoi(SubSeq(e[2], 5, 8))
             number == Atoi(SubSeq(e[2], 10, Len(e[2]) - 5))
         IN  IF year.err # NoErr THEN [files |-> <<>>, err |-> year.err, panicked |-> FALSE]
             ELSE IF Len(e[2]) - 5 < 9 THEN [files |-> <<>>, err |-> NoErr, panicked |-> TRUE]
             ELSE IF number.err # NoErr
             THEN [files |-> <<>>, err |-> number.err, panicked |-> FALSE]
             ELSE walkFrom(t, Tail(entries),
                           Append(files, [dirPath  |-> e[1],
                                          filename |-> e[2],
                                          treeHash |-> TreeHashOf(t, e[1]),
                                          blobHash |-> t[e],
                                          year     |-> year.val,
                                          number   |-> number.val]))

\* walkFiles collects CVE files from a repo tree.
walkFiles(t) == walkFrom(t, Entries(t, 1), <<>>)

\* Mutant of Less: the IDs are compared, as strings.
LessByID(a, b) == StrLess(idFromFilename(a.filename), idFromFilename(b.filename))

\* The less function of repoCVEFiles' sort: the year and the number, as ints.
Less(a, b) ==
    IF a.year # b.year THEN IntLess(a.year, b.year) ELSE IntLess(a.number, b.number)

\* sort.Slice on the files S: the orders it may leave them in.  The sort is
\* not stable, so files that Less does not tell apart come in any order.
RECURSIVE SortFiles(_)
SortFiles(S) ==
    IF S = {} THEN {<<>>}
    ELSE UNION {{<<m>> \o rest : rest \in SortFiles(S \ {m})} :
                    m \in {x \in S : \A y \in S : ~Less(y, x)}}

\* repoCVEFiles returns all the CVE files in the given repo commit, sorted:
\* the results it can have.
repoCVEFiles(t) ==
    LET w == walkFiles(t)
    IN  IF w.err # NoErr \/ w.panicked THEN {w}
        ELSE {[w EXCEPT !.files = s] : s \in SortFiles({w.files[k] : k \in 1..Len(w.files)})}

\* The first loop of groupFilesByDirectory: consecutive runs of one directory.
RECURSIVE GroupRuns(_, _, _)
GroupRuns(files, result, curDir) ==
    IF Len(files) = 0
    THEN IF Len(curDir) > 0 THEN Append(result, curDir) ELSE result
    ELSE LET f == Head(files)
         IN  IF Len(curDir) > 0 /\ f.dirPath # curDir[1].dirPath
             THEN GroupRuns(Tail(files), Append(result, curDir), <<f>>)
             ELSE GroupRuns(Tail(files), result, Append(curDir, f))

\* Mutant of groupFilesByDirectory: the runs are not verified.
groupFilesUnverified(files) == [result |-> GroupRuns(files, <<>>, <<>>), err |-> NoErr]

\* Collect files by directory, verifying that directories are contiguous.
groupFilesByDirectory(files) ==
    LET result == GroupRuns(files, <<>>, <<>>)
        repeated == \E a, b \in 1..Len(result) :
                        a < b /\ result[a][1].dirPath = result[b][1].dirPath
    IN  IF Len(files) = 0 THEN [result |-> <<>>, err |-> NoErr]
        ELSE IF repeated THEN [result |-> <<>>, err |-> <<"not contiguous">>]
        ELSE [result |-> result, err |-> NoErr]

\* ----------------------------------------------------------------- store

TriageStateNoActionNeeded == "NoActionNeeded"
TriageStateNeedsIssue == "NeedsIssue"
TriageStateIssueCreated == "IssueCreated"
TriageStateUpdatedSinceIssueCreation == "UpdatedSinceIssueCreation"

TriageStates == {TriageStateNoActionNeeded, TriageStateNeedsIssue,
                 TriageStateIssueCreated, TriageStateUpdatedSinceIssueCreation}

\* A value of the TriageState field that this version of the engine does not know.
UnknownTriageState == "Bogus"

\* store.NewCVERecord: the record of a CVE seen for the first time.
NewCVERecord(f, pathname, blobHash) ==
    [ID                |-> idFromFilename(f.filename),
     Path              |-> pathname,
     BlobHash          |-> blobHash,
     CVEState          |-> CVEStateOf(f.blobHash),
     CommitHash        |-> 0,
     TriageState       |-> "",
     TriageStateReason |-> ""]

\* Transaction.GetCVERecords: the stored records whose ID lies in
\* [startID, endID] in the store's order on IDs, which is the string order.
GetCVERecords(records, startID, endID) ==
    {records[id] : id \in {x \in DOMAIN records : StrLeq(startID, x) /\ StrLeq(x, endID)}}

\* Transaction.CreateCVERecord.  What the store does when a record with the
\* ID exists is the store's choice: st.replaces says whether it writes the
\* record over the stored one or fails.
CreateCVERecord(st, cr) ==
    IF cr.ID \in DOMAIN st.records /\ ~st.replaces
    THEN <<"CreateCVERecord: already exists", cr.ID>>
    ELSE NoErr

\* fmt.Sprintf("CVE changed; needs issue = %t", needs)
ReasonChanged(needs) ==
    IF needs THEN "CVE changed; needs issue = true" ELSE "CVE changed; needs issue = false"

\* ------------------------------------------------------------- handleCVE

\* What can go wrong while one file is handled: reading or decoding its blob,
\* the triage predicate, the write of its record.
FileFaults == {"read", "needsIssue", "write"}

\* Mutant of modTriageState: a record that needed an issue keeps needing it.
modTriageStateKeepsNeedsIssue(mod, old, needs) ==
    CASE old.TriageState = TriageStateNoActionNeeded ->
            [mod |-> IF needs THEN [mod EXCEPT !.TriageState = TriageStateNeedsIssue] ELSE mod,
             err |-> NoErr]
      [] old.TriageState = TriageStateNeedsIssue ->
            [mod |-> mod, err |-> NoErr]
      [] old.TriageState \in {TriageStateIssueCreated, TriageStateUpdatedSinceIssueCreation} ->
            [mod |-> [mod EXCEPT !.TriageState = TriageStateUpdatedSinceIssueCreation,
                                 !.TriageStateReason = ReasonChanged(needs)],
             err |-> NoErr]
      [] OTHER ->
            [mod |-> mod, err |-> <<"unknown TriageState", old.TriageState>>]

\* The switch of handleCVE on old.TriageState: the modified record, and the
\* error of an unknown state.
modTriageState(mod, old, needs) ==
    CASE old.TriageState = TriageStateNoActionNeeded ->
            [mod |-> IF needs THEN [mod EXCEPT !.TriageState = TriageStateNeedsIssue] ELSE mod,
             err |-> NoErr]
      [] old.TriageState = TriageStateNeedsIssue ->
            [mod |-> IF ~needs THEN [mod EXCEPT !.TriageState = TriageStateNoActionNeeded] ELSE mod,
             err |-> NoErr]
      [] old.TriageState \in {TriageStateIssueCreated, TriageStateUpdatedSinceIssueCreation} ->
            [mod |-> [mod EXCEPT !.TriageState = TriageStateUpdatedSinceIssueCreation,
                                 !.TriageStateReason = ReasonChanged(needs)],
             err |-> NoErr]
      [] OTHER ->
            [mod |-> mod, err |-> <<"unknown TriageState", old.TriageState>>]

\* The triage state of a record created for a file not in the store.
newTriageState(needs) ==
    IF needs THEN TriageStateNeedsIssue ELSE TriageStateNoActionNeeded

\* Mutant of callsNeedsIssue: the predicate is called whatever the state.
callsNeedsIssueAlways(blob) == TRUE

\* Whether handleCVE calls the triage predicate for a decoded CVE.
callsNeedsIssue(blob) == CVEStateOf(blob) = StatePublic

\* handleCVE determines how to change the store for a single CVE.  old is
\* <<>> for nil and <<record>> otherwise; st is the store the transaction
\* writes to.  The result has the added flag, the error, the
\* record written (none: <<>>) and whether the predicate was called.
handleCVE(f, old, commitHash, fault, st) ==
    LET pathname == <<f.dirPath, f.filename>>
        called == fault # "read" /\ callsNeedsIssue(f.blobHash)
        needs == IF called THEN needsIssue(f.blobHash) ELSE FALSE
        fail(e) == [added |-> FALSE, err |-> e, write |-> <<>>, called |-> called]
    IN  IF fault = "read" THEN fail(<<"handleCVE", f.filename>>)
        ELSE IF called /\ fault = "needsIssue" THEN fail(<<"handleCVE", f.filename>>)
        ELSE IF old = <<>>
        THEN LET cr == [NewCVERecord(f, pathname, f.blobHash) EXCEPT
                            !.CommitHash = commitHash,
                            !.TriageState = newTriageState(needs)]
                 e == IF fault = "write" THEN <<"handleCVE", f.filename>>
                      ELSE CreateCVERecord(st, cr)
             IN  IF e # NoErr THEN fail(e)
                 ELSE [added |-> TRUE, err |-> NoErr, write |-> <<cr>>, called |-> called]
        ELSE LET mod0 == [old[1] EXCEPT !.Path = pathname,
                                        !.BlobHash = f.blobHash,
                                        !.CVEState = CVEStateOf(f.blobHash),
                                        !.CommitHash = commitHash]
                 sw == modTriageState(mod0, old[1], needs)
             IN  IF sw.err # NoErr THEN fail(sw.err)
                 ELSE IF fault = "write" THEN fail(<<"handleCVE", f.filename>>)
                 ELSE [added |-> FALSE, err |-> NoErr, write |-> <<sw.mod>>, called |-> called]

\* ----------------------------------------------------------- updateBatch

NoFault == [at |-> 0, kind |-> "none"]

\* The faults one execution of a transaction body over batch can meet.
Faults(batch) ==
    {[at |-> 0, kind |-> "GetCVERecords"]}
        \cup {[at |-> p, kind |-> k] : p \in 1..Len(batch), k \in FileFaults}

\* The test of updateBatch for a file without change: a record is known and
\* its BlobHash is the file's.
unchanged(old, f) == old # <<>> /\ old[1].BlobHash = f.blobHash

\* Mutant of resetCounts: the body goes on counting from where the
\* execution before it left off.
keepCounts(prev) == prev

\* numAdds = 0; numMods = 0 at the start of the transaction body.
resetCounts(prev) == [numAdds |-> 0, numMods |-> 0]

\* The range read of the transaction body: the records of the IDs from the
\* first to the last file of the batch.
readBatchRecords(batch, st) ==
    GetCVERecords(st.records, idFromFilename(batch[1].filename),
                  idFromFilename(batch[Len(batch)].filename))

\* Mutant of counted: an error of handleCVE does not end the body.
countedIgnoringError(acc, f, h) ==
    [acc EXCEPT
        !.handled = @ \cup {f.filename},
        !.called = IF h.called THEN @ \cup {f.filename} ELSE @,
        !.numAdds = IF h.err = NoErr /\ h.added THEN @ + 1 ELSE @,
        !.numMods = IF h.err = NoErr /\ ~h.added THEN @ + 1 ELSE @,
        !.writes = IF h.err = NoErr THEN @ \cup {h.write[1]} ELSE @]

\* One turn of the loop of the transaction body, for the k-th file of the
\* batch.  acc carries what this execution counted in numAdds and numMods,
\* the records it wrote, the files passed to handleCVE, the files the
\* predicate was called for, and the error.
counted(acc, f, h) ==
    [acc EXCEPT
        !.handled = @ \cup {f.filename},
        !.called = IF h.called THEN @ \cup {f.filename} ELSE @,
        !.err = h.err,
        !.numAdds = IF h.err = NoErr /\ h.added THEN @ + 1 ELSE @,
        !.numMods = IF h.err = NoErr /\ ~h.added THEN @ + 1 ELSE @,
        !.writes = IF h.err = NoErr THEN @ \cup {h.write[1]} ELSE @]

\* idToRecord[id]: <<>> for nil.
lookup(crs, id) ==
    IF \E cr \in crs : cr.ID = id THEN <<CHOOSE cr \in crs : cr.ID = id>> ELSE <<>>

resolve(f, old, commitHash, fault, st, acc) ==
    IF unchanged(old, f) THEN acc
    ELSE counted(acc, f, handleCVE(f, old, commitHash, fault, st))

txStep(batch, k, st, commitHash, fault, acc) ==
    resolve(batch[k], lookup(acc.crs, idFromFilename(batch[k].filename)), commitHash,
            IF fault.at = k THEN fault.kind ELSE "none", st, acc)

RECURSIVE txLoop(_, _, _, _, _, _)
txLoop(batch, k, st, commitHash, fault, acc) ==
    IF k > Len(batch) \/ acc.err # NoErr THEN acc
    ELSE txLoop(batch, k + 1, st, commitHash, fault,
                txStep(batch, k, st, commitHash, fault, acc))

\* One execution of the function passed to RunTransaction.
txBody(batch, st, commitHash, fault) ==
    LET acc0 == [numAdds |-> 0, numMods |-> 0, writes |-> {}, handled |-> {},
                 called |-> {}, crs |-> {}, err |-> NoErr]
    IN  IF fault.kind = "GetCVERecords" THEN [acc0 EXCEPT !.err = <<"GetCVERecords">>]
        ELSE txLoop(batch, 1, st, commitHash, fault,
                    [acc0 EXCEPT !.crs = readBatchRecords(batch, st)])

\* updateBatch's numAdds and numMods after n executions of the body, each
\* of which sets them to zero and then counts exec.numAdds adds and
\* exec.numMods modifications.
RECURSIVE countsAfter(_, _)
countsAfter(n, exec) ==
    IF n = 0 THEN [numAdds |-> 0, numMods |-> 0]
    ELSE LET zero == resetCounts(countsAfter(n - 1, exec))
         IN  [numAdds |-> zero.numAdds + exec.numAdds,
              numMods |-> zero.numMods + exec.numMods]

\* Store.RunTransaction: the store executes the body attempts times and
\* commits the last execution; an execution that returns an error is the
\* last.  (With a single writer every execution reads the same store.)
executed(attempts, exec) ==
    [exec EXCEPT
        !.numAdds = countsAfter(IF exec.err # NoErr THEN 1 ELSE attempts, exec).numAdds,
        !.numMods = countsAfter(IF exec.err # NoErr THEN 1 ELSE attempts, exec).numMods]

RunTransaction(attempts, batch, st, commitHash, fault) ==
    executed(attempts, txBody(batch, st, commitHash, fault))

\* The store after the writes of a committed transaction.
Commit(records, writes) ==
    LET ids == {w.ID : w \in writes}
    IN  [id \in DOMAIN records \cup ids |->
            IF id \in ids THEN CHOOSE w \in writes : w.ID = id ELSE records[id]]

\* updateBatch: one transaction over a batch.  The result has numAdds,
\* numMods and err as returned, the store afterwards, and the transaction.
transacted(records, tx) ==
    IF tx.err # NoErr
    THEN [numAdds |-> 0, numMods |-> 0, err |-> tx.err, records |-> records, tx |-> tx]
    ELSE [numAdds |-> tx.numAdds, numMods |-> tx.numMods, err |-> NoErr,
          records |-> Commit(records, tx.writes), tx |-> tx]

updateBatch(batch, st, commitHash, fault, attempts) ==
    transacted(st.records, RunTransaction(attempts, batch, st, commitHash, fault))

\* ----------------------------------------------------------------- state

VARIABLES
    layout,      \* which repository layout is synchronised
    tree,        \* the repository at its head commit: entry -> blob
    head,        \* the head commit (its hash is its number)
    cveRecords,  \* the store's CVE records, by ID
    dirHashes,   \* the store's directory hash markers, by directory path
    storedUR,    \* the CommitUpdateRecord of this run as the store holds it: <<>> or <<record>>
    pc,          \* where doUpdate is
    runs,        \* how many times doUpdate was started
    events,      \* how many events the environment has contributed
    commitHash,  \* doUpdate's commitHash
    filesByDir,  \* doUpdate's filesByDir
    ur,          \* doUpdate's ur
    dirIdx,      \* the index in filesByDir of the directory being updated
    i,           \* updateDirectory's i
    numProc,     \* updateDirectory's numProc, and the value it returned
    numAdds,     \* updateDirectory's numAdds, and the value it returned
    numMods,     \* updateDirectory's numMods, and the value it returned
    dirErr,      \* the error updateDirectory returned
    ret,         \* what doUpdate returned: [ur, err]
    results,     \* history: what updateDirectory returned for each directory of this run
    committed,   \* history: the files, adds and modifications of the batches committed in this run
    lastTx,      \* history: the transaction just run, <<>> after any other step
    snap         \* history: the store as a clean run left it, <<>> once it or the commit changed

vars == <<layout, tree, head, cveRecords, dirHashes, storedUR, pc, runs, events,
          commitHash, filesByDir, ur, dirIdx, i, numProc, numAdds, numMods, dirErr, ret,
          results, committed, lastTx, snap>>

repoVars == <<layout, tree, head>>
storeVars == <<cveRecords, dirHashes, storedUR>>
dirLocals == <<i, numProc, numAdds, numMods, dirErr>>

\* The directory updateDirectory works on.
dirFiles == filesByDir[dirIdx]
dirPath == dirFiles[1].dirPath
dirHash == dirFiles[1].treeHash

NoUR == [CommitHash |-> 0, NumTotal |-> 0, NumProcessed |-> 0, NumAdded |-> 0,
         NumModified |-> 0, Error |-> NoErr, EndedAt |-> FALSE]
NoRet == [ur |-> <<>>, err |-> NoErr]
NoneCommitted == [numProc |-> 0, numAdds |-> 0, numMods |-> 0]

Init ==
    /\ layout \in LayoutNames
    /\ tree = [e \in Layouts[layout] |-> "publicNoNeeds"]
    /\ head = 1
    /\ cveRecords = << >>
    /\ dirHashes = [d \in Dirs |-> NoHash]
    /\ storedUR = <<>>
    /\ pc = "idle"
    /\ runs = 0
    /\ events = 0
    /\ commitHash = 0
    /\ filesByDir = <<>>
    /\ ur = NoUR
    /\ dirIdx = 0
    /\ i = 0
    /\ numProc = 0
    /\ numAdds = 0
    /\ numMods = 0
    /\ dirErr = NoErr
    /\ ret = NoRet
    /\ results = <<>>
    /\ committed = NoneCommitted
    /\ lastTx = <<>>
    /\ snap = <<>>

\* -------------------------------------------------------------- doUpdate

\* Whether an operation of the repository or the store succeeds: it may
\* fail while the budget of events lasts.
Outcomes == IF events < MaxEvents THEN {TRUE, FALSE} ELSE {TRUE}

\* The count of events after an operation with the given outcome.
Counted(ok) == events' = IF ok THEN events ELSE events + 1

\* doUpdate returns.
Returns(u, e) ==
    /\ pc' = "done"
    /\ ret' = [ur |-> u, err |-> e]

\* updateDirectory returns to doUpdate's loop body.
DirReturns(np, na, nm, e) ==
    /\ numProc' = np
    /\ numAdds' = na
    /\ numMods' = nm
    /\ dirErr' = e
    /\ i' = 0
    /\ committed' = committed
    /\ results' = Append(results, [dir |-> dirPath, numProc |-> np, numAdds |-> na,
                                   numMods |-> nm, err |-> e])
    /\ pc' = IF e # NoErr THEN "seterr" ELSE "setcounts"

\* doUpdate after CommitObject succeeded, up to CreateCommitUpdateRecord:
\* list and group the files, create the record of the run.  A panic of
\* walkFiles ends the process: doUpdate does not return.
Started(fs, grouped, new, storeOk) ==
    IF fs.panicked
    THEN /\ storeOk
         /\ pc' = "idle"
         /\ UNCHANGED <<ur, dirIdx, storedUR, filesByDir, ret>>
    ELSE IF fs.err # NoErr \/ grouped.err # NoErr
    THEN /\ storeOk
         /\ Returns(<<>>, IF fs.err # NoErr THEN fs.err ELSE grouped.err)
         /\ UNCHANGED <<ur, dirIdx, storedUR, filesByDir>>
    ELSE IF ~storeOk
    THEN /\ ur' = new
         /\ filesByDir' = grouped.result
         /\ Returns(<<new>>, <<"CreateCommitUpdateRecord">>)
         /\ UNCHANGED <<dirIdx, storedUR>>
    ELSE /\ ur' = new
         /\ filesByDir' = grouped.result
         /\ storedUR' = <<new>>
         /\ dirIdx' = IF Len(grouped.result) > 0 THEN 1 ELSE 0
         /\ pc' = IF Len(grouped.result) > 0 THEN "gate" ELSE "final"
         /\ UNCHANGED ret

\* Mutant of newUpdateRecord: NumTotal is left at zero.
newUpdateRecordNoTotal(commit, fs) == [NoUR EXCEPT !.CommitHash = commit]

\* The CommitUpdateRecord doUpdate creates for a commit with the files fs.
newUpdateRecord(commit, fs) ==
    [NoUR EXCEPT !.CommitHash = commit, !.NumTotal = Len(fs.files)]

\* doUpdate is called for the head commit and runs up to its loop.
StartUpdate ==
    /\ pc = "idle"
    /\ runs < MaxRuns
    /\ runs' = runs + 1
    /\ commitHash' = head
    /\ lastTx' = <<>>
    /\ results' = <<>>
    /\ committed' = NoneCommitted
    /\ UNCHANGED <<repoVars, cveRecords, dirHashes, dirLocals, snap>>
    /\ \E repoOk \in Outcomes, storeOk \in Outcomes :
        /\ repoOk \/ storeOk
        /\ Counted(repoOk /\ storeOk)
        /\ IF ~repoOk
           THEN /\ Returns(<<>>, <<"CommitObject">>)
                /\ UNCHANGED <<ur, dirIdx, storedUR, filesByDir>>
           ELSE \E fs \in repoCVEFiles(tree) :
                    Started(fs, groupFilesByDirectory(fs.files),
                            newUpdateRecord(head, fs), storeOk)

\* Mutant of hashesMatch: every directory is skipped.
hashesAlwaysMatch(current, dbHash) == TRUE

\* Mutant of hashesMatch: no directory is skipped.
hashesNeverMatch(current, dbHash) == FALSE

\* The comparison of updateDirectory: the directory is skipped when the
\* stored hash is the current one.
hashesMatch(current, dbHash) == current = dbHash

\* Mutant of hashInProgress: the marker is cleared instead.
hashCleared(current) == NoHash

\* Mutant of hashInProgress: the current hash is stored at once.
hashStoredEarly(current) == current

\* The hash updateDirectory stores before it processes a directory.
hashInProgress(current) == InProgress

\* updateDirectory up to the comparison of the hashes.
GetDirectoryHash ==
    /\ pc = "gate"
    /\ lastTx' = <<>>
    /\ UNCHANGED <<repoVars, storeVars, runs, commitHash, filesByDir, ur, dirIdx, ret, snap>>
    /\ \E storeOk \in Outcomes :
        /\ Counted(storeOk)
        /\ IF ~storeOk THEN DirReturns(0, 0, 0, <<"GetDirectoryHash", dirPath>>)
           ELSE IF hashesMatch(dirHash, dirHashes[dirPath]) THEN DirReturns(0, 0, 0, NoErr)
           ELSE /\ pc' = "sentinel"
                /\ UNCHANGED <<dirLocals, results, committed>>

\* Set the hash to something that can't match.
SetInProgress ==
    /\ pc = "sentinel"
    /\ lastTx' = <<>>
    /\ UNCHANGED <<repoVars, cveRecords, storedUR, runs, commitHash, filesByDir, ur, dirIdx,
                   ret, snap>>
    /\ \E storeOk \in Outcomes :
        /\ Counted(storeOk)
        /\ IF ~storeOk
           THEN /\ DirReturns(0, 0, 0, <<"SetDirectoryHash", dirPath>>)
                /\ UNCHANGED dirHashes
           ELSE /\ dirHashes' = [dirHashes EXCEPT ![dirPath] = hashInProgress(dirHash)]
                /\ pc' = "batch"
                /\ i' = 0
                /\ numProc' = 0
                /\ numAdds' = 0
                /\ numMods' = 0
                /\ UNCHANGED <<dirErr, results, committed>>

\* Mutant of batchEnd: the window is not bounded by batchSize.
batchEndOfList(from, len) == len

\* The end of the batch that starts at offset from.
batchEnd(from, len) == IF from + batchSize > len THEN len ELSE from + batchSize

\* updateDirectory after updateBatch returned b for the batch up to j.
BatchDone(j, batch, attempts, fault, b) ==
    /\ lastTx' = <<[batch |-> batch, before |-> cveRecords, tx |-> b.tx,
                    attempts |-> attempts, fault |-> fault,
                    numAdds |-> b.numAdds, numMods |-> b.numMods, err |-> b.err]>>
    /\ cveRecords' = b.records
    /\ IF b.err # NoErr
       THEN DirReturns(0, 0, 0, b.err)
       ELSE /\ numProc' = numProc + (j - i)
            /\ numAdds' = numAdds + b.numAdds
            /\ numMods' = numMods + b.numMods
            /\ i' = i + batchSize
            /\ pc' = IF i + batchSize < Len(dirFiles) THEN "batch" ELSE "marker"
            /\ committed' = [numProc |-> committed.numProc + (j - i),
                              numAdds |-> committed.numAdds + b.numAdds,
                              numMods |-> committed.numMods + b.numMods]
            /\ UNCHANGED <<dirErr, results>>

\* The batch of dirFiles from offset from to j.
batchOf(from, j) == SubSeq(dirFiles, from + 1, j)

\* The store a transaction over batch runs on.  Whether CreateCVERecord
\* replaces a stored record is chosen where it makes a difference: when
\* the batch has a file whose stored record the range read does not return.
Stores(batch) ==
    {[records |-> cveRecords, replaces |-> r] :
        r \in IF \E k \in 1..Len(batch) :
                    /\ idFromFilename(batch[k].filename) \in DOMAIN cveRecords
                    /\ cveRecords[idFromFilename(batch[k].filename)] \notin
                            GetCVERecords(cveRecords, idFromFilename(batch[1].filename),
                                          idFromFilename(batch[Len(batch)].filename))
              THEN BOOLEAN ELSE {FALSE}}

\* One turn of updateDirectory's batch loop.  A fault ends the transaction
\* at its first execution.
UpdateBatch ==
    /\ pc = "batch"
    /\ UNCHANGED <<repoVars, dirHashes, storedUR, runs, commitHash, filesByDir,
                   ur, dirIdx, ret, snap>>
    /\ \E attempts \in 1..MaxAttempts,
          st \in Stores(batchOf(i, batchEnd(i, Len(dirFiles)))),
          fault \in {NoFault} \cup (IF events < MaxEvents
                                    THEN Faults(batchOf(i, batchEnd(i, Len(dirFiles))))
                                    ELSE {}) :
        /\ fault # NoFault => attempts = 1
        /\ Counted(fault = NoFault)
        /\ BatchDone(batchEnd(i, Len(dirFiles)), batchOf(i, batchEnd(i, Len(dirFiles))),
                     attempts, fault,
                     updateBatch(batchOf(i, batchEnd(i, Len(dirFiles))), st,
                                 commitHash, fault, attempts))

\* We're done with this directory, so we can remember its hash.
SetDirectoryHash ==
    /\ pc = "marker"
    /\ lastTx' = <<>>
    /\ UNCHANGED <<repoVars, cveRecords, storedUR, runs, commitHash, filesByDir, ur, dirIdx,
                   ret, snap>>
    /\ \E storeOk \in Outcomes :
        /\ Counted(storeOk)
        /\ IF ~storeOk
           THEN /\ DirReturns(0, 0, 0, <<"SetDirectoryHash", dirPath>>)
                /\ UNCHANGED dirHashes
           ELSE /\ dirHashes' = [dirHashes EXCEPT ![dirPath] = dirHash]
                /\ DirReturns(numProc, numAdds, numMods, NoErr)

\* doUpdate's handling of an error of updateDirectory.
SetError ==
    /\ pc = "seterr"
    /\ lastTx' = <<>>
    /\ UNCHANGED <<repoVars, cveRecords, dirHashes, runs, commitHash, filesByDir, dirIdx,
                   dirLocals, results, committed, snap>>
    /\ ur' = [ur EXCEPT !.Error = dirErr]
    /\ \E storeOk \in Outcomes :
        /\ Counted(storeOk)
        /\ IF ~storeOk
           THEN /\ Returns(<<ur'>>, <<"update failed with", dirErr, "could not set update record">>)
                /\ UNCHANGED storedUR
           ELSE /\ storedUR' = <<ur'>>
                /\ pc' = "setcounts"
                /\ UNCHANGED ret

\* Where doUpdate's loop over filesByDir goes after a directory whose update
\* returned err: to the next directory while there is one.
afterDirectory(idx, err) == IF idx < Len(filesByDir) THEN "gate" ELSE "final"

\* doUpdate's addition of the directory's counts to the record of the run.
SetCounts ==
    /\ pc = "setcounts"
    /\ lastTx' = <<>>
    /\ UNCHANGED <<repoVars, cveRecords, dirHashes, runs, commitHash, filesByDir,
                   dirLocals, results, committed, snap>>
    /\ ur' = [ur EXCEPT !.NumProcessed = @ + numProc,
                        !.NumAdded = @ + numAdds,
                        !.NumModified = @ + numMods]
    /\ \E storeOk \in Outcomes :
        /\ Counted(storeOk)
        /\ IF ~storeOk
           THEN /\ Returns(<<ur'>>, <<"SetCommitUpdateRecord">>)
                /\ UNCHANGED <<storedUR, dirIdx>>
           ELSE /\ storedUR' = <<ur'>>
                /\ pc' = afterDirectory(dirIdx, dirErr)
                /\ dirIdx' = IF pc' = "gate" THEN dirIdx + 1 ELSE dirIdx
                /\ UNCHANGED ret

\* The error doUpdate returns after its loop, err being ur.Error and err2
\* the error of the last SetCommitUpdateRecord: it is the latter.
finalError(err, err2) == err2

\* doUpdate after its loop: the end time and the last write of the record.
Finalize ==
    /\ pc = "final"
    /\ lastTx' = <<>>
    /\ UNCHANGED <<repoVars, cveRecords, dirHashes, runs, commitHash, filesByDir, dirIdx,
                   dirLocals, results, committed, snap>>
    /\ ur' = [ur EXCEPT !.EndedAt = TRUE]
    /\ \E storeOk \in Outcomes :
        /\ Counted(storeOk)
        /\ /\ storedUR' = IF storeOk THEN <<ur'>> ELSE storedUR
           /\ Returns(<<ur'>>, finalError(ur.Error,
                           IF storeOk THEN NoErr ELSE <<"SetCommitUpdateRecord">>))

\* Whether a finished run processed every directory without any error.
cleanRun == ret.err = NoErr /\ ur.Error = NoErr

\* The caller takes doUpdate's result; the process is ready for another run.
Return ==
    /\ pc = "done"
    /\ pc' = "idle"
    /\ ur' = NoUR
    /\ ret' = NoRet
    /\ dirIdx' = 0
    /\ i' = 0
    /\ numProc' = 0
    /\ numAdds' = 0
    /\ numMods' = 0
    /\ dirErr' = NoErr
    /\ commitHash' = 0
    /\ filesByDir' = <<>>
    /\ storedUR' = <<>>
    /\ results' = <<>>
    /\ committed' = NoneCommitted
    /\ lastTx' = <<>>
    /\ snap' = IF cleanRun THEN <<[records |-> cveRecords, hashes |-> dirHashes]>> ELSE snap
    /\ UNCHANGED <<repoVars, cveRecords, dirHashes, runs, events>>

\* The process is interrupted at any step of a run; the store keeps what
\* was written.
Crash ==
    /\ pc \notin {"idle", "done"}
    /\ events < MaxEvents
    /\ events' = events + 1
    /\ pc' = "idle"
    /\ ur' = NoUR
    /\ ret' = NoRet
    /\ dirIdx' = 0
    /\ i' = 0
    /\ numProc' = 0
    /\ numAdds' = 0
    /\ numMods' = 0
    /\ dirErr' = NoErr
    /\ commitHash' = 0
    /\ filesByDir' = <<>>
    /\ storedUR' = <<>>
    /\ results' = <<>>
    /\ committed' = NoneCommitted
    /\ lastTx' = <<>>
    /\ UNCHANGED <<repoVars, cveRecords, dirHashes, runs, snap>>

\* ------------------------------------------------------------ environment

\* The files that commits change: one that is alone in its directory, and
\* one of the directory of several batches.
ChangedFiles == {F0001, F9999}

\* A commit changes the content of one CVE file; runs start from the head.
CommitChange ==
    /\ pc = "idle"
    /\ events < MaxEvents
    /\ events' = events + 1
    /\ \E e \in {x \in DOMAIN tree : x[2] \in ChangedFiles}, b \in Blobs :
        /\ b # tree[e]
        /\ tree' = [tree EXCEPT ![e] = b]
    /\ head' = head + 1
    /\ snap' = <<>>
    /\ UNCHANGED <<layout, storeVars, pc, runs, commitHash, filesByDir, ur,
                   dirIdx, dirLocals, ret, results, committed, lastTx>>

\* An external actor (a person, the issue creator) rewrites the triage state
\* of a stored record between runs.
ExternalTriage ==
    /\ pc = "idle"
    /\ events < MaxEvents
    /\ events' = events + 1
    /\ \E id \in DOMAIN cveRecords, st \in TriageStates \cup {UnknownTriageState} :
        /\ st # cveRecords[id].TriageState
        /\ cveRecords' = [cveRecords EXCEPT ![id].TriageState = st]
    /\ snap' = <<>>
    /\ UNCHANGED <<repoVars, dirHashes, storedUR, pc, runs, commitHash, filesByDir, ur,
                   dirIdx, dirLocals, ret, results, committed, lastTx>>

Next ==
    \/ StartUpdate
    \/ GetDirectoryHash
    \/ SetInProgress
    \/ UpdateBatch
    \/ SetDirectoryHash
    \/ SetError
    \/ SetCounts
    \/ Finalize
    \/ Return
    \/ Crash
    \/ CommitChange
    \/ ExternalTriage

Spec == Init /\ [][Next]_vars

TypeOK ==
    /\ pc \in {"idle", "gate", "sentinel", "batch", "marker", "seterr", "setcounts",
               "final", "done"}
    /\ DOMAIN cveRecords \subseteq AllIDs
    /\ runs \in 0..MaxRuns

\* ---------------------------------------------------------------- claims

\* The CVE files of directory d at the head commit, as tree entries.
CVEEntries(d) == {e \in DOMAIN tree : e[1] = d /\ isCVEFilename(e[2])}

\* Every file of d has a stored record with the file's blob hash.
Synced(d) ==
    \A e \in CVEEntries(d) :
        /\ idFromFilename(e[2]) \in DOMAIN cveRecords
        /\ cveRecords[idFromFilename(e[2])].BlobHash = tree[e]

\* Whether updateDirectory returned an error for some directory of this run.
SomeDirFailed == \E k \in 1..Len(results) : results[k].err # NoErr

\* C1: in every reachable state, also of runs that failed or were
\* interrupted at any step, a directory whose stored marker is its current
\* tree hash has, for every one of its files, a stored record with the
\* file's blob hash.
C1_MarkerOnlyAfterAllBatches ==
    \A d \in Dirs : dirHashes[d] = TreeHashOf(tree, d) => Synced(d)

\* C1 witness: the marker of the directory of two batches is its tree hash
\* while an earlier directory was left in progress by a failed operation.
C1_Witness ==
    /\ layout = "grouped"
    /\ dirHashes["d2"] = TreeHashOf(tree, "d2")
    /\ dirHashes["d1"] = InProgress
    /\ Synced("d2")

\* C2 (as claimed): the range read of a transaction returns the stored
\* record of every file of its batch, so that no file with a stored record
\* is passed to handleCVE without it and handled as an add.
C2_RangeReadFindsBatchRecords ==
    (lastTx # <<>> /\ lastTx[1].fault.kind # "GetCVERecords") =>
        \A k \in 1..Len(lastTx[1].batch) :
            LET id == idFromFilename(lastTx[1].batch[k].filename)
            IN  id \in DOMAIN lastTx[1].before =>
                    lastTx[1].before[id] \in lastTx[1].tx.crs

\* C3: a run on the commit and the store that a run without any error
\* left leaves every record and every marker as they were, and reports no
\* add and no modification.
C3_SecondRunIsNoOp ==
    snap # <<>> =>
        /\ cveRecords = snap[1].records
        /\ dirHashes = snap[1].hashes
        /\ ur.NumAdded = 0 /\ ur.NumModified = 0
        /\ (pc = "done" /\ ret.ur # <<>>) =>
                ret.ur[1].NumAdded = 0 /\ ret.ur[1].NumModified = 0

\* C3 witness: the second run returned without error, over a store with
\* records, having visited every directory.
C3_Witness ==
    /\ snap # <<>>
    /\ pc = "done"
    /\ runs = 2
    /\ ret.err = NoErr
    /\ Len(results) = 3
    /\ DOMAIN cveRecords # {}

\* C4 (as claimed): once updateDirectory has returned an error, doUpdate
\* updates no further directory (the failed directory is the last one it
\* called updateDirectory for, and it is in none of updateDirectory's
\* steps), and the record of the run is stored with its end time once
\* doUpdate returns without an error of its own.
C4_StopsAtFailedDirectory ==
    /\ \A k \in 1..Len(results) : results[k].err # NoErr => k = Len(results)
    /\ SomeDirFailed => pc \notin {"sentinel", "batch", "marker"}
    /\ (pc = "done" /\ SomeDirFailed /\ ret.err = NoErr) =>
            (storedUR # <<>> /\ storedUR[1].EndedAt)

\* C5 (as claimed): doUpdate returns an error whenever updateDirectory
\* failed for a directory of the run.
C5_FailureIsReturned ==
    (pc = "done" /\ SomeDirFailed) => ret.err # NoErr

\* C6 (as claimed): when the first of three directories succeeds and the
\* second fails, every write of the run's record succeeding, the record
\* last stored has the counts of the first directory, the error of the
\* second and an end time, and the first directory stays committed. (The
\* error doUpdate returns is that of a write of the run's record, see
\* finalError and SetCounts, so ret.err = NoErr says that every write of
\* the record succeeded.)
C6_PartialFailureRecord ==
    (/\ pc = "done"
     /\ ret.err = NoErr
     /\ Len(filesByDir) = 3
     /\ Len(results) >= 2
     /\ results[1].err = NoErr
     /\ results[2].err # NoErr) =>
        /\ storedUR # <<>>
        /\ storedUR[1].NumProcessed = results[1].numProc
        /\ storedUR[1].NumAdded = results[1].numAdds
        /\ storedUR[1].NumModified = results[1].numMods
        /\ storedUR[1].Error = results[2].err
        /\ storedUR[1].EndedAt
        /\ dirHashes[results[1].dir] = TreeHashOf(tree, results[1].dir)
        /\ Synced(results[1].dir)

\* The k-th file of the transaction just run, its ID, the record the
\* transaction body looked up for it (<<>>: none), and the needs boolean
\* that handleCVE computes for its content.
TxFile(k) == lastTx[1].batch[k]
TxID(k) == idFromFilename(TxFile(k).filename)
TxOld(k) == lookup(lastTx[1].tx.crs, TxID(k))
TxNeeds(k) == CVEStateOf(TxFile(k).blobHash) = StatePublic /\ needsIssue(TxFile(k).blobHash)
TxFiles == IF lastTx = <<>> THEN {} ELSE 1..Len(lastTx[1].batch)

\* The triage state after a change, by the old state and the needs boolean.
TransitionTable(oldState, needs) ==
    CASE oldState = "NoActionNeeded" -> IF needs THEN "NeedsIssue" ELSE "NoActionNeeded"
      [] oldState = "NeedsIssue" -> IF needs THEN "NeedsIssue" ELSE "NoActionNeeded"
      [] oldState = "IssueCreated" -> "UpdatedSinceIssueCreation"
      [] oldState = "UpdatedSinceIssueCreation" -> "UpdatedSinceIssueCreation"

\* C7: when handleCVE is given an existing record, the record committed
\* has the triage state of the transition table for the old state and the
\* needs boolean, with the reason set anew from the states IssueCreated and
\* UpdatedSinceIssueCreation and left as it was from the other two; an old
\* state outside the four makes the transaction fail with no record written.
C7_TriageTransitionTable ==
    \A k \in TxFiles :
        (TxOld(k) # <<>> /\ TxFile(k).filename \in lastTx[1].tx.handled) =>
            IF TxOld(k)[1].TriageState \notin TriageStates
            THEN lastTx[1].err # NoErr /\ cveRecords = lastTx[1].before
            ELSE lastTx[1].err = NoErr =>
                    /\ cveRecords[TxID(k)].TriageState =
                            TransitionTable(TxOld(k)[1].TriageState, TxNeeds(k))
                    /\ cveRecords[TxID(k)].TriageStateReason =
                            IF TxOld(k)[1].TriageState \in
                                    {"IssueCreated", "UpdatedSinceIssueCreation"}
                            THEN ReasonChanged(TxNeeds(k))
                            ELSE TxOld(k)[1].TriageStateReason

\* C7 witness: a committed transaction changed a record in state
\* IssueCreated, for a content that needs an issue.
C7_Witness ==
    \E k \in TxFiles :
        /\ lastTx[1].err = NoErr
        /\ TxOld(k) # <<>>
        /\ TxOld(k)[1].TriageState = "IssueCreated"
        /\ TxNeeds(k)
        /\ cveRecords[TxID(k)].TriageState = "UpdatedSinceIssueCreation"
        /\ cveRecords[TxID(k)].TriageStateReason = "CVE changed; needs issue = true"

\* C8 (as claimed): no step of the engine takes a record out of
\* IssueCreated or UpdatedSinceIssueCreation to NoActionNeeded or
\* NeedsIssue, and none puts a record into IssueCreated; only steps of the
\* environment, taken between runs, do.
C8_IssueStatesAreOneWay ==
    [][ ~(pc = "idle" /\ pc' = "idle") =>
          /\ \A id \in DOMAIN cveRecords :
                cveRecords[id].TriageState \in {"IssueCreated", "UpdatedSinceIssueCreation"} =>
                    /\ id \in DOMAIN cveRecords'
                    /\ cveRecords'[id].TriageState \notin {"NoActionNeeded", "NeedsIssue"}
          /\ \A id \in DOMAIN cveRecords' :
                cveRecords'[id].TriageState = "IssueCreated" =>
                    /\ id \in DOMAIN cveRecords
                    /\ cveRecords[id].TriageState = "IssueCreated" ]_vars

\* The files of the transaction just run that had no stored record.
TxNew == {k \in TxFiles : TxID(k) \notin DOMAIN lastTx[1].before}

\* C9: the files without a stored record are among the adds of a committed
\* transaction (the files handleCVE was given no old record for, which are
\* what it counts), the record created for one is NeedsIssue when its content
\* is public and the predicate says so and NoActionNeeded otherwise, and
\* the predicate is not called for a content that is not public.
C9_NewFileIsAnAdd ==
    /\ \A k \in TxFiles :
            CVEStateOf(TxFile(k).blobHash) # "PUBLIC" =>
                TxFile(k).filename \notin lastTx[1].tx.called
    /\ (lastTx # <<>> /\ lastTx[1].err = NoErr) =>
            /\ lastTx[1].numAdds = Cardinality({k \in TxFiles : TxOld(k) = <<>>})
            /\ \A k \in TxNew :
                    /\ TxOld(k) = <<>>
                    /\ TxID(k) \in DOMAIN cveRecords
                    /\ cveRecords[TxID(k)].TriageState =
                            IF TxFile(k).blobHash = "publicNeeds"
                            THEN "NeedsIssue" ELSE "NoActionNeeded"

\* C9 witness: a committed transaction created the record of a file that
\* is not public, in state NoActionNeeded, and counted it as an add.
C9_Witness ==
    \E k \in TxNew :
        /\ lastTx[1].err = NoErr
        /\ TxFile(k).blobHash = "reserved"
        /\ TxFile(k).filename \in lastTx[1].tx.handled
        /\ cveRecords[TxID(k)].TriageState = "NoActionNeeded"
        /\ lastTx[1].numAdds >= 1

\* C10 (as claimed): a file whose stored record has the file's blob hash
\* is skipped by the transaction: it is not passed to handleCVE, the
\* predicate is not called for it and its record stays as it was; it is
\* counted neither as an add nor as a modification, but as processed.
C10_UnchangedFileIsSkipped ==
    \A k \in TxFiles :
        (/\ TxID(k) \in DOMAIN lastTx[1].before
         /\ lastTx[1].before[TxID(k)].BlobHash = TxFile(k).blobHash) =>
            /\ TxFile(k).filename \notin lastTx[1].tx.handled
            /\ TxFile(k).filename \notin lastTx[1].tx.called
            /\ cveRecords[TxID(k)] = lastTx[1].before[TxID(k)]
            /\ lastTx[1].err = NoErr =>
                    /\ lastTx[1].numAdds + lastTx[1].numMods < Len(lastTx[1].batch)
                    /\ numProc >= Len(lastTx[1].batch)

\* C11: updateDirectory for a directory whose stored marker is its tree
\* hash runs no transaction, writes no marker and no record and returns
\* (0, 0, 0); for a directory whose marker differs it goes on to the
\* sentinel and the batches, and when it returns without error it has
\* passed every file of the directory through a batch (numProc is the
\* number of the directory's files), whatever the number of changed files.
C11_GateCorrectness ==
    [][ /\ (pc = "gate" /\ pc' # "idle") =>
            IF dirHashes[dirPath] = dirHash
            THEN /\ pc' \in {"setcounts", "seterr"}
                 /\ pc' = "setcounts" =>
                        numProc' = 0 /\ numAdds' = 0 /\ numMods' = 0 /\ dirErr' = NoErr
                 /\ cveRecords' = cveRecords
                 /\ dirHashes' = dirHashes
                 /\ lastTx' = <<>>
            ELSE pc' \in {"sentinel", "seterr"}
        /\ (pc \in {"sentinel", "batch", "marker"} /\ pc' = "setcounts") =>
            /\ pc = "marker"
            /\ dirErr' = NoErr
            /\ numProc' = Len(dirFiles) ]_vars

\* C11 witness: in the run after a commit that changed one file, the first
\* directory was skipped and the directory of three files was processed
\* whole.
C11_Witness ==
    /\ runs = 2
    /\ head = 2
    /\ Len(results) = 2
    /\ results[1] = [dir |-> "d1", numProc |-> 0, numAdds |-> 0, numMods |-> 0, err |-> NoErr]
    /\ results[2].dir = "d2"
    /\ results[2].err = NoErr
    /\ results[2].numProc = 3

\* Whether some directory has, in the list files, two files with a file of
\* another directory between them.
SeparatedRuns(files) ==
    \E a, b, c \in 1..Len(files) :
        /\ a < b /\ b < c
        /\ files[a].dirPath = files[c].dirPath
        /\ files[a].dirPath # files[b].dirPath

\* C12 (the "split" repository is the one with such a list): for a
\* repository whose sorted file list has one directory in two
\* runs separated by files of another, groupFilesByDirectory returns an
\* error and doUpdate returns it without a record of the run and before
\* any write to the store: no run record, no marker, no CVE record.
C12_NonContiguousIsRejected ==
    (layout = "split" /\ \A fs \in repoCVEFiles(tree) : SeparatedRuns(fs.files)) =>
        /\ pc \in {"idle", "done"}
        /\ pc = "done" => (ret.ur = <<>> /\ ret.err # NoErr)
        /\ storedUR = <<>>
        /\ cveRecords = << >>
        /\ \A d \in Dirs : dirHashes[d] = NoHash

\* C12 witness: doUpdate returned the error of groupFilesByDirectory for a
\* list with separated runs.
C12_Witness ==
    /\ layout = "split"
    /\ \E fs \in repoCVEFiles(tree) : SeparatedRuns(fs.files)
    /\ pc = "done"
    /\ ret = [ur |-> <<>>, err |-> <<"not contiguous">>]

\* Errors that no operation of the store, the repository or the predicate
\* returned: the ones the engine raises itself on its inputs.
StructuralErrors == {"not contiguous", "unknown TriageState", "strconv.Atoi"}

\* Whether an operation of the store, the repository or the predicate
\* failed in the run that has returned.
OperationFailed ==
    \/ ret.err # NoErr /\ ret.err[1] \notin StructuralErrors
    \/ \E k \in 1..Len(results) :
            results[k].err # NoErr /\ results[k].err[1] \notin StructuralErrors

\* The number of files in the directories among the first k that
\* updateDirectory skipped (it returned numProc = 0 without error).
RECURSIVE SkippedFiles(_)
SkippedFiles(k) ==
    IF k = 0 THEN 0
    ELSE SkippedFiles(k - 1) +
            (IF results[k].err = NoErr /\ results[k].numProc = 0
             THEN Len(filesByDir[k]) ELSE 0)

\* What a run leaves on total success: every file of the commit has a
\* stored record with its blob hash, every directory's marker is its tree
\* hash, the files processed and the files of skipped directories are all
\* the files, and the record of the run, as stored and as returned, has its
\* end time and no error.
TotalSuccess ==
    /\ \A e \in {x \in DOMAIN tree : isCVEFilename(x[2])} :
            /\ idFromFilename(e[2]) \in DOMAIN cveRecords
            /\ cveRecords[idFromFilename(e[2])].BlobHash = tree[e]
            /\ dirHashes[e[1]] = TreeHashOf(tree, e[1])
    /\ storedUR # <<>>
    /\ ret.ur = storedUR
    /\ Len(results) = Len(filesByDir)
    /\ storedUR[1].NumProcessed + SkippedFiles(Len(results)) = storedUR[1].NumTotal
    /\ storedUR[1].NumTotal = Cardinality({x \in DOMAIN tree : isCVEFilename(x[2])})
    /\ storedUR[1].EndedAt
    /\ storedUR[1].Error = NoErr

\* C13 (as claimed): a run in which no operation of the store, the
\* repository or the predicate failed has ended in total success.
C13_NoFailureIsTotalSuccess ==
    (pc = "done" /\ ~OperationFailed) => TotalSuccess

\* How far a run has come: the directory it is at, and within the
\* directory the step of updateDirectory or of doUpdate's loop body.  A run
\* over n directories ends before the measure exceeds 20 * n + 14.
RunMeasure ==
    20 * dirIdx +
        (CASE pc = "gate" -> 0
           [] pc = "sentinel" -> 1
           [] pc = "batch" -> 2 + i
           [] pc = "marker" -> 10
           [] pc = "seterr" -> 11
           [] pc = "setcounts" -> 12
           [] pc = "final" -> 13
           [] OTHER -> 14)

\* A run has returned, and neither doUpdate nor updateDirectory for any
\* directory returned an error.
ReturnedClean ==
    /\ pc = "done"
    /\ ret.err = NoErr
    /\ \A k \in 1..Len(results) : results[k].err = NoErr

\* C13 (amended): every step of a run that was started brings the run
\* nearer to its return (the measure, which is bounded, grows); and a run
\* in which no operation failed and the engine met no structural error
\* (doUpdate and every updateDirectory returned no error) has ended in
\* total success.
C13_CleanRunIsTotalSuccess ==
    [][ /\ (pc \notin {"idle", "done"} /\ pc' # "idle") =>
                /\ RunMeasure' > RunMeasure
                /\ RunMeasure' <= 20 * Len(filesByDir) + 14
        /\ (ReturnedClean => TotalSuccess)' ]_vars

\* C13 witness: the run after a commit returned in total success, having
\* skipped a directory and processed another.
C13_Witness ==
    /\ pc = "done"
    /\ runs = 2
    /\ head = 2
    /\ ret.err = NoErr
    /\ \A k \in 1..Len(results) : results[k].err = NoErr
    /\ \E k \in 1..Len(results) : results[k].numProc = 0
    /\ \E k \in 1..Len(results) : results[k].numProc > 0
    /\ TotalSuccess

\* Whether file a comes before file b in the numeric order of (year, number).
NumericallyBefore(a, b) ==
    IntLess(a.year, b.year) \/ (a.year = b.year /\ IntLess(a.number, b.number))

\* C14: the files of a run are in ascending numeric order of (year,
\* number): of any two files of the grouped list, whether in one directory
\* group or in two, and of any two files of a batch, the one that is
\* numerically before the other is placed before it, every CVE file of the
\* commit is in the list, and this is so also where the string order of the
\* IDs is the other way round.
C14_NumericOrder ==
    /\ \A g1, g2 \in 1..Len(filesByDir) :
            \A p \in 1..Len(filesByDir[g1]), q \in 1..Len(filesByDir[g2]) :
                NumericallyBefore(filesByDir[g1][p], filesByDir[g2][q]) =>
                    (g1 < g2 \/ (g1 = g2 /\ p < q))
    /\ filesByDir # <<>> =>
            UNION {{<<filesByDir[g][p].dirPath, filesByDir[g][p].filename>> :
                        p \in 1..Len(filesByDir[g])} : g \in 1..Len(filesByDir)}
                = {x \in DOMAIN tree : isCVEFilename(x[2])}
    /\ \A p, q \in TxFiles : NumericallyBefore(TxFile(p), TxFile(q)) => p < q

\* C14 witness: a transaction ran over the batch of CVE-2014-9999 and
\* CVE-2014-10001, in this order, while as strings the second ID is the
\* smaller.
C14_Witness ==
    /\ lastTx # <<>>
    /\ Len(lastTx[1].batch) = 2
    /\ lastTx[1].batch[1].filename = F9999
    /\ lastTx[1].batch[2].filename = F10001
    /\ StrLess(idFromFilename(F10001), idFromFilename(F9999))

\* C15: a step of a run that creates or updates a CVE record is a batch of
\* updateDirectory, taken while the marker of its directory is the
\* in-progress sentinel; the batches start only once the sentinel is
\* stored, and when the write of the sentinel fails updateDirectory returns
\* the error with no batch run; from the write of the sentinel to the write
\* of the real hash the marker stays the sentinel, also over an
\* interruption or a failure; and the sentinel is no directory's hash.
C15_SentinelBeforeProcess ==
    [][ /\ (pc # "idle" /\ cveRecords' # cveRecords) =>
                /\ pc = "batch"
                /\ dirHashes[dirPath] = InProgress
                /\ dirHashes'[dirPath] = InProgress
        /\ pc' = "batch" =>
                /\ pc \in {"sentinel", "batch"}
                /\ dirHashes'[filesByDir'[dirIdx'][1].dirPath] = InProgress
        /\ (pc = "sentinel" /\ pc' \notin {"batch", "idle"}) =>
                /\ pc' = "seterr"
                /\ dirErr' # NoErr
                /\ cveRecords' = cveRecords /\ dirHashes' = dirHashes /\ lastTx' = <<>>
        /\ (pc = "batch" \/ (pc = "marker" /\ pc' # "setcounts")) =>
                /\ dirHashes[dirPath] = InProgress
                /\ dirHashes'[dirPath] = InProgress
        /\ \A d \in Dirs : InProgress # TreeHashOf(tree, d) ]_vars

\* C15 witness: a run was interrupted between two batches of a directory;
\* records of the first batch are stored and the marker is the sentinel.
C15_Witness ==
    /\ pc = "idle"
    /\ runs = 1
    /\ dirHashes["d2"] = InProgress
    /\ idFromFilename(F9999) \in DOMAIN cveRecords
    /\ idFromFilename(F10002) \notin DOMAIN cveRecords

\* C16: the batches of a directory are consecutive windows of its file
\* list: a batch starts where the files processed so far end, at a
\* multiple of batchSize before the end of the list; it is the files from
\* there on, in their order, up to batchSize of them or to the end of the
\* list, and never empty; one transaction is run for it, which writes at
\* most batchSize records; and the batches end when the list is covered.
C16_BatchesPartitionTheDirectory ==
    [][ /\ pc = "batch" =>
                /\ i = numProc
                /\ i % batchSize = 0
                /\ i < Len(dirFiles)
        /\ (pc = "batch" /\ pc' # "idle") =>
                /\ lastTx' # <<>>
                /\ Len(lastTx'[1].batch) >= 1
                /\ Len(lastTx'[1].batch) <= batchSize
                /\ Len(lastTx'[1].batch) = batchSize \/ i + Len(lastTx'[1].batch) = Len(dirFiles)
                /\ \A k \in 1..Len(lastTx'[1].batch) : lastTx'[1].batch[k] = dirFiles[i + k]
                /\ Cardinality(lastTx'[1].tx.writes) <= batchSize
                /\ pc' \in {"batch", "marker"} =>
                        /\ numProc' = i + Len(lastTx'[1].batch)
                        /\ i' = i + batchSize
                        /\ (pc' = "marker") = (numProc' = Len(dirFiles))
        /\ pc # "batch" => lastTx' = <<>> ]_vars

\* C16 witness: the directory of three files was covered by a window of
\* batchSize files and a last, shorter one.
C16_Witness ==
    /\ pc = "marker"
    /\ Len(dirFiles) = 3
    /\ numProc = 3
    /\ lastTx # <<>>
    /\ Len(lastTx[1].batch) = 1
    /\ lastTx[1].batch[1] = dirFiles[3]

\* The files of the transaction just run that its last execution passed to
\* handleCVE without an old record (it created their records) and with one
\* (it updated their records).
TxCreated == {k \in TxFiles : TxFile(k).filename \in lastTx[1].tx.handled /\ TxOld(k) = <<>>}
TxUpdated == {k \in TxFiles : TxFile(k).filename \in lastTx[1].tx.handled /\ TxOld(k) # <<>>}

\* C17: however many times the store executes the body of a transaction
\* that commits, the numAdds and numMods that updateBatch returns, and
\* that updateDirectory adds to its totals, are the numbers of records the
\* committed execution created and updated, which together are the records
\* the transaction wrote.
C17_CountsOfCommittedExecution ==
    [][ (pc = "batch" /\ pc' \in {"batch", "marker"}) =>
            /\ lastTx'[1].err = NoErr
            /\ lastTx'[1].attempts \in 1..MaxAttempts
            /\ lastTx'[1].numAdds = Cardinality(TxCreated')
            /\ lastTx'[1].numMods = Cardinality(TxUpdated')
            /\ numAdds' = numAdds + Cardinality(TxCreated')
            /\ numMods' = numMods + Cardinality(TxUpdated')
            /\ Cardinality(lastTx'[1].tx.writes) =
                    Cardinality(TxCreated') + Cardinality(TxUpdated')
            /\ \A id \in DOMAIN cveRecords' :
                    (id \notin DOMAIN cveRecords \/ cveRecords'[id] # cveRecords[id]) =>
                        cveRecords'[id] \in lastTx'[1].tx.writes ]_vars

\* C17 witness: a transaction whose body the store executed twice
\* committed two new records and one add was counted for each.
C17_Witness ==
    /\ lastTx # <<>>
    /\ lastTx[1].attempts = 2
    /\ lastTx[1].err = NoErr
    /\ Cardinality(TxCreated) = 2
    /\ lastTx[1].numAdds = 2
    /\ numAdds = 2
    /\ Cardinality(DOMAIN cveRecords \ DOMAIN lastTx[1].before) = 2

\* Whether handling a file failed in the transaction just run: an injected
\* failure of the blob read or decode, of the predicate (called for public
\* content only) or of the record write struck a file that was passed to
\* handleCVE, or a file's old record has an unknown triage state.
TxFileFailed ==
    /\ lastTx # <<>>
    /\ \/ /\ lastTx[1].fault.at \in TxFiles
          /\ TxFile(lastTx[1].fault.at).filename \in lastTx[1].tx.handled
          /\ \/ lastTx[1].fault.kind \in {"read", "write"}
             \/ /\ lastTx[1].fault.kind = "needsIssue"
                /\ CVEStateOf(TxFile(lastTx[1].fault.at).blobHash) = "PUBLIC"
       \/ \E k \in TxFiles :
            /\ TxFile(k).filename \in lastTx[1].tx.handled
            /\ TxOld(k) # <<>>
            /\ TxOld(k)[1].TriageState \notin
                    {"NoActionNeeded", "NeedsIssue", "IssueCreated", "UpdatedSinceIssueCreation"}

\* The errors updateBatch returns.
BatchErrors == {"handleCVE", "unknown TriageState", "CreateCVERecord: already exists",
                "GetCVERecords"}

\* C18: when handling a file of a batch fails, the transaction creates and
\* modifies no record, updateBatch returns the error and updateDirectory
\* returns it with counts of zero; the directory's marker is the sentinel
\* then and for the rest of the run, and no batch of a directory is run
\* after updateDirectory has returned for it.
C18_FailedBatchChangesNothing ==
    [][ /\ (pc = "batch" /\ TxFileFailed') =>
                /\ cveRecords' = cveRecords
                /\ lastTx'[1].err # NoErr
                /\ pc' = "seterr"
                /\ dirErr' = lastTx'[1].err
                /\ results' = Append(results, [dir |-> dirPath, numProc |-> 0, numAdds |-> 0,
                                               numMods |-> 0, err |-> lastTx'[1].err])
                /\ dirHashes' = dirHashes
                /\ dirHashes[dirPath] = InProgress
        /\ pc' = "batch" =>
                \A k \in 1..Len(results') :
                    results'[k].dir # filesByDir'[dirIdx'][1].dirPath
        /\ \A k \in 1..Len(results') :
                (results'[k].err # NoErr /\ results'[k].err[1] \in BatchErrors) =>
                    dirHashes'[results'[k].dir] = InProgress ]_vars

\* C18 witness: the blob of the second file of a batch could not be read,
\* after the first file had been handled; no record of the batch is
\* stored and updateDirectory has returned the error.
C18_Witness ==
    /\ pc = "seterr"
    /\ TxFileFailed
    /\ lastTx[1].fault = [at |-> 2, kind |-> "read"]
    /\ lastTx[1].tx.writes # {}
    /\ cveRecords = lastTx[1].before
    /\ idFromFilename(lastTx[1].batch[1].filename) \notin DOMAIN cveRecords
    /\ dirHashes[dirPath] = InProgress
    /\ dirErr # NoErr

\* Whether the record of the run was just persisted: doUpdate is past a
\* successful write of it and has committed no batch since.
JustPersisted ==
    /\ storedUR # <<>>
    /\ \/ pc \in {"gate", "final"}
       \/ pc = "setcounts" /\ dirErr # NoErr
       \/ pc = "done" /\ storedUR[1].EndedAt

\* C19 (as claimed): whenever the record of the run is persisted, its
\* NumProcessed, NumAdded and NumModified are the files, the records
\* created and the records updated of the batches committed so far in the
\* run, also after a directory failed with batches committed.
C19_RunRecordCountsCommitted ==
    JustPersisted =>
        /\ storedUR[1].NumProcessed = committed.numProc
        /\ storedUR[1].NumAdded = committed.numAdds
        /\ storedUR[1].NumModified = committed.numMods

\* C20 (as claimed): a batch run again on a commit leaves every record
\* that a run on this commit had committed as it is (its triage state,
\* also one an external actor has set since, its reason and its other
\* fields), and a transaction that commits creates no record for an ID
\* that has a stored record.
C20_ReentryKeepsRecords ==
    [][ pc = "batch" =>
            /\ \A id \in DOMAIN cveRecords :
                    cveRecords[id].CommitHash = commitHash =>
                        /\ id \in DOMAIN cveRecords'
                        /\ cveRecords'[id] = cveRecords[id]
            /\ (lastTx' # <<>> /\ lastTx'[1].err = NoErr) =>
                    \A k \in TxCreated' : TxID(k)' \notin DOMAIN cveRecords ]_vars

====
